---- MODULE Spec2Model ----
(***************************************************************************)
(* Graceful shutdown of the HTTP service in src/src/server.ts              *)
(* (gracefulShutdown, lines 190-224).                                      *)
(*                                                                         *)
(* The process is a single-threaded event loop.  Each action below is one  *)
(* event-loop callback run to completion, together with the process.       *)
(* nextTick work and promise continuations it schedules, since no other    *)
(* callback can run in between.                                            *)
(*                                                                         *)
(* server.close(cb) follows the documented behaviour of net.Server.close:  *)
(* it stops the listener, registers cb as a one-shot listener of the       *)
(* 'close' event, and the 'close' event is emitted once the listener is    *)
(* stopped and no connection is left.  When the server is not listening    *)
(* at the time of the call, cb is invoked with an Error.                   *)
(***************************************************************************)
EXTENDS Integers, Sequences, FiniteSets, TLC

\* ---- bounds --------------------------------------------------------------

\* Termination signals delivered in one run.
MaxSignals == 4

\* Connections (requests) in flight at the same time.
MaxConnections == 3

\* Tasks the collection holds at the same time.
MaxTasks == 1

\* ---- constants of the program -------------------------------------------

\* exitCode value of a process that has not called process.exit.
NoExit == -1

SignalNames == {"SIGTERM", "SIGINT"}

\* Log lines, src/src/server.ts:191, 196, 200, 205, 207, 210, 217.
EvInitiated(signal) == IF signal = "SIGTERM" THEN "initiated SIGTERM" ELSE "initiated SIGINT"
EvServerError == "error closing server"
EvServerClosed == "server closed"
EvStorageClosed == "storage closed"
EvCompleted == "shutdown completed"
EvShutdownError == "error during shutdown"
EvTimedOut == "timed out"

InitiatedEvents == {EvInitiated(s) : s \in SignalNames}

VARIABLES
    serverListening,    \* the listener is bound and accepts connections
    connections,        \* requests accepted and not yet answered
    closeListeners,     \* callbacks of server.close waiting for 'close': TRUE = called with an Error
    closeEmitted,       \* number of 'close' events the listener has emitted
    storage,            \* mongoose connection: "open", "closing", "closed", "failed"
    storageCloseCalls,  \* invocations of mongoose.connection.close
    timers,             \* pending setTimeout callbacks
    log,                \* console output, in order
    exitCode,           \* NoExit, or the code given to process.exit
    signals,            \* signals received so far, in order
    serverCloseCalls,   \* invocations of server.close
    closeErrors,        \* server.close callbacks invoked with an Error
    answeredDraining,   \* responses sent after the listener was stopped
    dbState,            \* outcome of mongoose.connect: "connecting", "connected", "failed"
    connectLog,         \* console output of the connect callbacks, in order
    lastResponse,       \* the response sent last, with the request it answers
    tasks,              \* the Task collection: id -> completed
    deployPc,           \* deploy.sh: the step to run next, "done" after exit
    deployStatus,       \* deploy.sh: NoExit, or its exit status
    head,               \* deploy.sh: commit checked out in the working tree
    originAhead,        \* deploy.sh: origin/$BRANCH has a commit HEAD lacks
    containers,         \* deploy.sh: version the containers run, or "down"
    image,              \* deploy.sh: version of the image built last
    healthAttempt,      \* deploy.sh: the loop variable i of the health check
    failedCommand       \* deploy.sh: the command whose failure ended the script

serverVars == <<serverListening, connections, closeListeners, closeEmitted, storage,
                storageCloseCalls, timers, log, exitCode, signals, serverCloseCalls,
                closeErrors, answeredDraining, dbState, connectLog, lastResponse,
                tasks>>

deployVars == <<deployPc, deployStatus, head, originAhead, containers, image,
                healthAttempt, failedCommand>>

vars == <<serverVars, deployVars>>

\* State of the start-up connect and of the request handlers.
appVars == <<dbState, connectLog, lastResponse, tasks>>

Exited == exitCode # NoExit

\* ---- the callback given to server.close ----------------------------------

\* The part of the process a server.close callback reads and writes.
Proc == [log |-> log, storage |-> storage, storageCloseCalls |-> storageCloseCalls,
         exitCode |-> exitCode, closeErrors |-> closeErrors]

\* A close callback that does not leave after reporting the error.
closeCallbackFallThrough(err, p) ==
    IF p.exitCode # NoExit THEN p
    ELSE [p EXCEPT !.log = (IF err THEN Append(@, EvServerError) ELSE @) \o <<EvServerClosed>>,
                   !.closeErrors = IF err THEN @ + 1 ELSE @,
                   !.storage = "closing",
                   !.storageCloseCalls = @ + 1]

\* A close callback that does not await the storage close before leaving.
closeCallbackNoAwait(err, p) ==
    IF p.exitCode # NoExit THEN p
    ELSE IF err THEN [p EXCEPT !.log = Append(@, EvServerError), !.exitCode = 1,
                                !.closeErrors = @ + 1]
    ELSE [p EXCEPT !.log = @ \o <<EvServerClosed, EvStorageClosed, EvCompleted>>,
                   !.storage = "closing",
                   !.storageCloseCalls = @ + 1,
                   !.exitCode = 0]

\* server.close(async (err) => {...}) up to the await: nothing runs once
\* process.exit was called.
closeCallback(err, p) ==
    IF p.exitCode # NoExit THEN p
    ELSE IF err THEN [p EXCEPT !.log = Append(@, EvServerError), !.exitCode = 1,
                                !.closeErrors = @ + 1]
    ELSE [p EXCEPT !.log = Append(@, EvServerClosed),
                   !.storage = "closing",
                   !.storageCloseCalls = @ + 1]

\* Emission of 'close': the registered callbacks run in registration order.
RECURSIVE emitClose(_, _)
emitClose(listeners, p) ==
    IF listeners = << >> THEN p
    ELSE emitClose(Tail(listeners), closeCallback(Head(listeners), p))

\* ---- actions ---------------------------------------------------------------

\* The listener accepts a new request.
RequestArrive ==
    /\ ~Exited
    /\ serverListening
    /\ connections < MaxConnections
    /\ connections' = connections + 1
    /\ UNCHANGED <<serverListening, closeListeners, closeEmitted, storage,
                   storageCloseCalls, timers, log, exitCode, signals,
                   serverCloseCalls, closeErrors, answeredDraining>>
    /\ UNCHANGED appVars
    /\ UNCHANGED deployVars

\* ---- the routes ---------------------------------------------------------------

\* GET /health, GET /, GET /api/tasks, POST /api/tasks without and with a
\* title, PUT /api/tasks/:id, DELETE /api/tasks/:id.
Routes == {"health", "root", "getTasks", "postNoTitle", "postTask", "putTask", "deleteTask"}

\* Routes whose handler awaits a storage operation.
NeedsStorage(route) == route \in {"getTasks", "postTask", "putTask", "deleteTask"}

\* Outcome of the awaited storage operation: a document (or list), null,
\* an exception; "none" for a handler without storage operation.
OpResults == {"ok", "notfound", "throws", "none"}

\* mongoose.connection.readyState === 1
dbConnected == dbState = "connected" /\ storage = "open"

\* Ids of the tasks in the collection.
TaskIds == 1..MaxTasks

\* Ids a request can name: those of TaskIds, and 0 for an id no task has.
RequestIds == 0..MaxTasks

\* Outcomes the storage operation of a route can have.  Without an
\* established connection the operation is rejected (mongoose buffers it and
\* gives up); findByIdAndUpdate and findByIdAndDelete resolve to the task
\* with the id, and to null for an id that matches no task; Task.create
\* resolves while the collection has room.
PossibleResults(route, id) ==
    IF ~NeedsStorage(route) THEN {"none"}
    ELSE IF ~dbConnected THEN {"throws"}
    ELSE IF route \in {"putTask", "deleteTask"}
         THEN (IF id \in DOMAIN tasks THEN {"ok"} ELSE {"notfound"}) \cup {"throws"}
    ELSE IF route = "postTask"
         THEN (IF DOMAIN tasks # TaskIds THEN {"ok"} ELSE {}) \cup {"throws"}
    ELSE {"ok", "throws"}

\* The collection after the write of a handler was applied: Task.create adds
\* a task that is not completed, findByIdAndUpdate sets the fields of the
\* body, findByIdAndDelete removes the task.
applyWrite(route, id, body) ==
    IF route = "postTask" /\ DOMAIN tasks # TaskIds
    THEN LET new == CHOOSE n \in TaskIds \ DOMAIN tasks :
                        \A m \in TaskIds \ DOMAIN tasks : n <= m
         IN [i \in DOMAIN tasks \cup {new} |-> IF i = new THEN FALSE ELSE tasks[i]]
    ELSE IF route = "putTask" /\ id \in DOMAIN tasks
    THEN [tasks EXCEPT ![id] = body]
    ELSE IF route = "deleteTask" /\ id \in DOMAIN tasks
    THEN [i \in DOMAIN tasks \ {id} |-> tasks[i]]
    ELSE tasks

\* POST /api/tasks creating the task before it looks at the title.
tasksAfterCreateFirst(route, id, body, result, applied) ==
    IF route = "postNoTitle" THEN applyWrite("postTask", id, body)
    ELSE IF result = "ok" \/ (result = "throws" /\ applied)
    THEN applyWrite(route, id, body)
    ELSE tasks

\* The collection after a handler ran.  A resolved operation was applied;
\* an operation that threw may or may not have been applied by the store;
\* a handler that returns before its operation, or whose lookup matched
\* nothing, writes nothing.
tasksAfter(route, id, body, result, applied) ==
    IF result = "ok" \/ (result = "throws" /\ applied)
    THEN applyWrite(route, id, body)
    ELSE tasks

\* Handlers whose catch block answers as if the operation had succeeded.
handlerStatusSwallowsError(route, result) ==
    CASE route = "postNoTitle" -> 400
      [] route = "postTask" -> 201
      [] route \in {"putTask", "deleteTask"} /\ result = "notfound" -> 404
      [] OTHER -> 200

\* HTTP status a route handler answers with.
handlerStatus(route, result) ==
    CASE route \in {"health", "root"} -> 200
      [] route = "postNoTitle" -> 400
      [] result = "throws" -> 500
      [] route = "postTask" -> 201
      [] route \in {"putTask", "deleteTask"} /\ result = "notfound" -> 404
      [] OTHER -> 200

\* The answers a handler sends on its path through the code: one, since the
\* 400 and 404 branches return and the catch block is the only other exit.
handlerSends(route, result) == <<handlerStatus(route, result)>>

\* The database field of the GET /health answer; "-" for the other routes.
handlerDatabase(route) ==
    IF route # "health" THEN "-"
    ELSE IF dbConnected THEN "Connected" ELSE "Disconnected"

NoResponse == [route |-> "-", id |-> 0, result |-> "none", status |-> 0,
               database |-> "-", sent |-> 0]

\* A request handler sends its response; the listener emits 'close' when it
\* was stopped and this was the last connection.
handleRequest(route, result) ==
    /\ ~Exited
    /\ connections > 0
    /\ connections' = connections - 1
    /\ \E id \in RequestIds, body \in BOOLEAN, applied \in BOOLEAN :
          /\ route \notin {"putTask", "deleteTask"} => id = 0
          /\ route # "putTask" => body = FALSE
          /\ applied => (result = "throws" /\ dbConnected)
          /\ result \in PossibleResults(route, id)
          /\ lastResponse' = [route |-> route, id |-> id, result |-> result,
                              status |-> Head(handlerSends(route, result)),
                              database |-> handlerDatabase(route),
                              sent |-> Len(handlerSends(route, result))]
          /\ tasks' = tasksAfter(route, id, body, result, applied)
    /\ LET drained == ~serverListening /\ connections = 1 /\ closeListeners # << >>
           p == IF drained THEN emitClose(closeListeners, Proc) ELSE Proc
       IN /\ closeListeners' = IF drained THEN << >> ELSE closeListeners
          /\ closeEmitted' = IF drained THEN closeEmitted + 1 ELSE closeEmitted
          /\ log' = p.log
          /\ storage' = p.storage
          /\ storageCloseCalls' = p.storageCloseCalls
          /\ exitCode' = p.exitCode
          /\ closeErrors' = p.closeErrors
    /\ answeredDraining' = IF serverListening THEN answeredDraining ELSE answeredDraining + 1
    /\ UNCHANGED <<serverListening, timers, signals, serverCloseCalls, dbState, connectLog>>
    /\ UNCHANGED deployVars

RequestComplete == \E route \in Routes, result \in OpResults : handleRequest(route, result)

\* ---- the start-up connect -----------------------------------------------------

EvConnected == "connected to MongoDB"
EvDatabase == "database uri"
EvConnectError == "MongoDB connection error"

\* mongoose.connect(MONGO_URI).then(...)
ConnectResolved ==
    /\ ~Exited
    /\ dbState = "connecting"
    /\ dbState' = "connected"
    /\ connectLog' = connectLog \o <<EvConnected, EvDatabase>>
    /\ UNCHANGED <<serverListening, connections, closeListeners, closeEmitted,
                   storage, storageCloseCalls, timers, log, exitCode, signals,
                   serverCloseCalls, closeErrors, answeredDraining, lastResponse,
                   tasks>>
    /\ UNCHANGED deployVars

\* A catch callback that ends the process when the connect fails.
ConnectRejectedExit ==
    /\ ~Exited
    /\ dbState = "connecting"
    /\ dbState' = "failed"
    /\ connectLog' = Append(connectLog, EvConnectError)
    /\ exitCode' = 1
    /\ UNCHANGED <<serverListening, connections, closeListeners, closeEmitted,
                   storage, storageCloseCalls, timers, log, signals,
                   serverCloseCalls, closeErrors, answeredDraining, lastResponse,
                   tasks>>
    /\ UNCHANGED deployVars

\* mongoose.connect(MONGO_URI).catch(...): the error is logged, the process
\* goes on.
ConnectRejected ==
    /\ ~Exited
    /\ dbState = "connecting"
    /\ dbState' = "failed"
    /\ connectLog' = Append(connectLog, EvConnectError)
    /\ UNCHANGED <<serverListening, connections, closeListeners, closeEmitted,
                   storage, storageCloseCalls, timers, log, exitCode, signals,
                   serverCloseCalls, closeErrors, answeredDraining, lastResponse,
                   tasks>>
    /\ UNCHANGED deployVars

\* gracefulShutdown without the forced-exit timer.
gracefulShutdownNoTimer(signal) ==
    /\ ~Exited
    /\ Len(signals) < MaxSignals
    /\ signals' = Append(signals, signal)
    /\ serverListening' = FALSE
    /\ timers' = timers
    /\ LET listeners == Append(closeListeners, ~serverListening)
           started == [Proc EXCEPT !.log = Append(@, EvInitiated(signal))]
           drained == connections = 0
           p == IF drained THEN emitClose(listeners, started) ELSE started
       IN /\ closeListeners' = IF drained THEN << >> ELSE listeners
          /\ closeEmitted' = IF drained THEN closeEmitted + 1 ELSE closeEmitted
          /\ log' = p.log
          /\ storage' = p.storage
          /\ storageCloseCalls' = p.storageCloseCalls
          /\ exitCode' = p.exitCode
          /\ closeErrors' = p.closeErrors
    /\ serverCloseCalls' = serverCloseCalls + 1
    /\ UNCHANGED <<connections, answeredDraining>>
    /\ UNCHANGED appVars
    /\ UNCHANGED deployVars

\* gracefulShutdown closing the storage connection next to server.close
\* instead of inside its callback.
gracefulShutdownNoWait(signal) ==
    /\ ~Exited
    /\ Len(signals) < MaxSignals
    /\ signals' = Append(signals, signal)
    /\ serverListening' = FALSE
    /\ timers' = timers + 1
    /\ closeListeners' = closeListeners
    /\ closeEmitted' = closeEmitted
    /\ log' = Append(log, EvInitiated(signal))
    /\ storage' = "closing"
    /\ storageCloseCalls' = storageCloseCalls + 1
    /\ serverCloseCalls' = serverCloseCalls + 1
    /\ UNCHANGED <<connections, exitCode, closeErrors, answeredDraining>>
    /\ UNCHANGED appVars
    /\ UNCHANGED deployVars

\* gracefulShutdown that registers the callback and leaves the listener
\* accepting.
gracefulShutdownKeepsListening(signal) ==
    /\ ~Exited
    /\ Len(signals) < MaxSignals
    /\ signals' = Append(signals, signal)
    /\ serverListening' = serverListening
    /\ timers' = timers + 1
    /\ LET listeners == Append(closeListeners, FALSE)
           started == [Proc EXCEPT !.log = Append(@, EvInitiated(signal))]
           drained == connections = 0
           p == IF drained THEN emitClose(listeners, started) ELSE started
       IN /\ closeListeners' = IF drained THEN << >> ELSE listeners
          /\ closeEmitted' = IF drained THEN closeEmitted + 1 ELSE closeEmitted
          /\ log' = p.log
          /\ storage' = p.storage
          /\ storageCloseCalls' = p.storageCloseCalls
          /\ exitCode' = p.exitCode
          /\ closeErrors' = p.closeErrors
    /\ serverCloseCalls' = serverCloseCalls + 1
    /\ UNCHANGED <<connections, answeredDraining>>
    /\ UNCHANGED appVars
    /\ UNCHANGED deployVars

\* gracefulShutdown(signal): log, server.close(callback), setTimeout.  With
\* no connection left the 'close' event follows on the next tick, before
\* any other event is handled.
gracefulShutdown(signal) ==
    /\ ~Exited
    /\ Len(signals) < MaxSignals
    /\ signals' = Append(signals, signal)
    /\ serverListening' = FALSE
    /\ timers' = timers + 1
    /\ LET listeners == Append(closeListeners, ~serverListening)
           started == [Proc EXCEPT !.log = Append(@, EvInitiated(signal))]
           drained == connections = 0
           p == IF drained THEN emitClose(listeners, started) ELSE started
       IN /\ closeListeners' = IF drained THEN << >> ELSE listeners
          /\ closeEmitted' = IF drained THEN closeEmitted + 1 ELSE closeEmitted
          /\ log' = p.log
          /\ storage' = p.storage
          /\ storageCloseCalls' = p.storageCloseCalls
          /\ exitCode' = p.exitCode
          /\ closeErrors' = p.closeErrors
    /\ serverCloseCalls' = serverCloseCalls + 1
    /\ UNCHANGED <<connections, answeredDraining>>
    /\ UNCHANGED appVars
    /\ UNCHANGED deployVars

\* process.on("SIGTERM", ...)
OnSIGTERM == gracefulShutdown("SIGTERM")

\* A SIGINT handler that leaves at once, without the shutdown sequence.
OnSIGINTExitNow ==
    /\ ~Exited
    /\ Len(signals) < MaxSignals
    /\ signals' = Append(signals, "SIGINT")
    /\ exitCode' = 0
    /\ UNCHANGED <<serverListening, connections, closeListeners, closeEmitted,
                   storage, storageCloseCalls, timers, log, serverCloseCalls,
                   closeErrors, answeredDraining>>
    /\ UNCHANGED appVars
    /\ UNCHANGED deployVars

\* process.on("SIGINT", ...)
OnSIGINT == gracefulShutdown("SIGINT")

\* The storage close resolves, with a retry-free continuation that reports
\* the failure exit.
StorageCloseResolvedExitOne ==
    /\ ~Exited
    /\ storage = "closing"
    /\ storage' = "closed"
    /\ log' = log \o <<EvStorageClosed, EvCompleted>>
    /\ exitCode' = 1
    /\ UNCHANGED <<serverListening, connections, closeListeners, closeEmitted,
                   storageCloseCalls, timers, signals, serverCloseCalls,
                   closeErrors, answeredDraining>>
    /\ UNCHANGED appVars
    /\ UNCHANGED deployVars

\* A try block that reports completion before the storage close is logged.
StorageCloseResolvedSwapped ==
    /\ ~Exited
    /\ storage = "closing"
    /\ storage' = "closed"
    /\ log' = log \o <<EvCompleted, EvStorageClosed>>
    /\ exitCode' = 0
    /\ UNCHANGED <<serverListening, connections, closeListeners, closeEmitted,
                   storageCloseCalls, timers, signals, serverCloseCalls,
                   closeErrors, answeredDraining>>
    /\ UNCHANGED appVars
    /\ UNCHANGED deployVars

\* await mongoose.connection.close() resolves: the rest of the try block.
StorageCloseResolved ==
    /\ ~Exited
    /\ storage = "closing"
    /\ storage' = "closed"
    /\ log' = log \o <<EvStorageClosed, EvCompleted>>
    /\ exitCode' = 0
    /\ UNCHANGED <<serverListening, connections, closeListeners, closeEmitted,
                   storageCloseCalls, timers, signals, serverCloseCalls,
                   closeErrors, answeredDraining>>
    /\ UNCHANGED appVars
    /\ UNCHANGED deployVars

\* A catch block that closes the storage connection again.
StorageCloseRejectedRetry ==
    /\ ~Exited
    /\ storage = "closing"
    /\ storage' = "closing"
    /\ storageCloseCalls' = storageCloseCalls + 1
    /\ storageCloseCalls < 2
    /\ log' = Append(log, EvShutdownError)
    /\ UNCHANGED <<serverListening, connections, closeListeners, closeEmitted,
                   exitCode, timers, signals, serverCloseCalls,
                   closeErrors, answeredDraining>>
    /\ UNCHANGED appVars
    /\ UNCHANGED deployVars

\* A catch block that reports success.
StorageCloseRejectedExitZero ==
    /\ ~Exited
    /\ storage = "closing"
    /\ storage' = "failed"
    /\ log' = Append(log, EvShutdownError)
    /\ exitCode' = 0
    /\ UNCHANGED <<serverListening, connections, closeListeners, closeEmitted,
                   storageCloseCalls, timers, signals, serverCloseCalls,
                   closeErrors, answeredDraining>>
    /\ UNCHANGED appVars
    /\ UNCHANGED deployVars

\* A catch block that gives the shutdown up and resumes serving.
StorageCloseRejectedRecover ==
    /\ ~Exited
    /\ storage = "closing"
    /\ storage' = "open"
    /\ serverListening' = TRUE
    /\ log' = Append(log, EvShutdownError)
    /\ UNCHANGED <<connections, closeListeners, closeEmitted, exitCode,
                   storageCloseCalls, timers, signals, serverCloseCalls,
                   closeErrors, answeredDraining>>
    /\ UNCHANGED appVars
    /\ UNCHANGED deployVars

\* await mongoose.connection.close() rejects: the catch block.
StorageCloseRejected ==
    /\ ~Exited
    /\ storage = "closing"
    /\ storage' = "failed"
    /\ log' = Append(log, EvShutdownError)
    /\ exitCode' = 1
    /\ UNCHANGED <<serverListening, connections, closeListeners, closeEmitted,
                   storageCloseCalls, timers, signals, serverCloseCalls,
                   closeErrors, answeredDraining>>
    /\ UNCHANGED appVars
    /\ UNCHANGED deployVars

\* A forced exit that reports success.
TimerFireExitZero ==
    /\ ~Exited
    /\ timers > 0
    /\ timers' = timers - 1
    /\ log' = Append(log, EvTimedOut)
    /\ exitCode' = 0
    /\ UNCHANGED <<serverListening, connections, closeListeners, closeEmitted,
                   storage, storageCloseCalls, signals, serverCloseCalls,
                   closeErrors, answeredDraining>>
    /\ UNCHANGED appVars
    /\ UNCHANGED deployVars

\* A timeout callback that warns and leaves the process running.
TimerFireNoExit ==
    /\ ~Exited
    /\ timers > 0
    /\ timers' = timers - 1
    /\ log' = Append(log, EvTimedOut)
    /\ UNCHANGED <<serverListening, connections, closeListeners, closeEmitted,
                   storage, storageCloseCalls, signals, serverCloseCalls,
                   closeErrors, answeredDraining, exitCode>>
    /\ UNCHANGED appVars
    /\ UNCHANGED deployVars

\* The setTimeout callback of gracefulShutdown.
TimerFire ==
    /\ ~Exited
    /\ timers > 0
    /\ timers' = timers - 1
    /\ log' = Append(log, EvTimedOut)
    /\ exitCode' = 1
    /\ UNCHANGED <<serverListening, connections, closeListeners, closeEmitted,
                   storage, storageCloseCalls, signals, serverCloseCalls,
                   closeErrors, answeredDraining>>
    /\ UNCHANGED appVars
    /\ UNCHANGED deployVars

\* ---- src/server.js --------------------------------------------------------------
\* The JavaScript entry point.  Its connect, routes and listen code (lines
\* 36-175) is the code of src/src/server.ts, so its runs share the actions
\* above; it never calls server.close, arms no timer and registers a
\* handler for SIGTERM only.

\* "SIGTERM signal received: closing HTTP server"
EvJsSigterm == "SIGTERM received: closing HTTP server"

\* Exit status of a process ended by SIGINT with no handler registered.
SigintStatus == 130

\* process.on("SIGTERM", ...): log, mongoose.connection.close(callback).
JsOnSIGTERM ==
    /\ ~Exited
    /\ Len(signals) < MaxSignals
    /\ signals' = Append(signals, "SIGTERM")
    /\ log' = Append(log, EvJsSigterm)
    /\ storage' = "closing"
    /\ storageCloseCalls' = storageCloseCalls + 1
    /\ UNCHANGED <<serverListening, connections, closeListeners, closeEmitted,
                   timers, exitCode, serverCloseCalls, closeErrors,
                   answeredDraining>>
    /\ UNCHANGED appVars
    /\ UNCHANGED deployVars

\* SIGINT: no handler is registered, the signal ends the process.
JsOnSIGINT ==
    /\ ~Exited
    /\ Len(signals) < MaxSignals
    /\ signals' = Append(signals, "SIGINT")
    /\ exitCode' = SigintStatus
    /\ UNCHANGED <<serverListening, connections, closeListeners, closeEmitted,
                   storage, storageCloseCalls, timers, log, serverCloseCalls,
                   closeErrors, answeredDraining>>
    /\ UNCHANGED appVars
    /\ UNCHANGED deployVars

\* The callback of mongoose.connection.close: it does not look at an error.
JsStorageCloseCallback ==
    /\ ~Exited
    /\ storage = "closing"
    /\ \E err \in BOOLEAN : storage' = IF err THEN "failed" ELSE "closed"
    /\ log' = Append(log, EvStorageClosed)
    /\ exitCode' = 0
    /\ UNCHANGED <<serverListening, connections, closeListeners, closeEmitted,
                   storageCloseCalls, timers, signals, serverCloseCalls,
                   closeErrors, answeredDraining>>
    /\ UNCHANGED appVars
    /\ UNCHANGED deployVars

JsNext ==
    \/ ConnectResolved
    \/ ConnectRejected
    \/ RequestArrive
    \/ RequestComplete
    \/ JsStorageCloseCallback
    \/ JsOnSIGTERM
    \/ JsOnSIGINT

\* ---- deploy.sh ------------------------------------------------------------------
\* The deployment script (src/src/server.ts, from line 226).  Its state is
\* the working tree, the image and the containers; the service above stays
\* as it is while the script is modelled.

\* set -e: a simple command that fails ends the script with its status.
ErrExit == TRUE

\* for i in {1..10}
HealthAttempts == 10

\* Non-zero statuses of a failing command: 1, or another value.
FailStatuses == {1, 2}

\* The script ends with the given status.
deployExit(status, command) ==
    /\ deployPc' = "done"
    /\ deployStatus' = status
    /\ failedCommand' = command

\* A command outside a condition: status 0 continues with the next step, a
\* failure under set -e ends the script at once.
deployRun(status, command, next) ==
    IF status # 0 /\ ErrExit
    THEN deployExit(status, command)
    ELSE /\ deployPc' = next
         /\ UNCHANGED <<deployStatus, failedCommand>>

\* PRE-DEPLOYMENT CHECKS: the compose file and .env must exist.
DeployPreChecks ==
    /\ deployPc = "precheck"
    /\ \E composeFile \in BOOLEAN, envFile \in BOOLEAN :
          IF composeFile /\ envFile
          THEN /\ deployPc' = "backup"
               /\ UNCHANGED <<deployStatus, failedCommand>>
          ELSE deployExit(1, "none")
    /\ UNCHANGED <<head, originAhead, containers, image, healthAttempt>>
    /\ UNCHANGED serverVars

\* CREATE BACKUP: mkdir, cp .env and the info file can fail; the database
\* dump and the clean-up are guarded by ||.
DeployBackup ==
    /\ deployPc = "backup"
    /\ \E status \in {0} \cup FailStatuses : deployRun(status, "backup", "fetch")
    /\ UNCHANGED <<head, originAhead, containers, image, healthAttempt>>
    /\ UNCHANGED serverVars

\* GIT OPERATIONS: OLD_COMMIT=$(git rev-parse --short HEAD); git fetch.
DeployFetch ==
    /\ deployPc = "fetch"
    /\ \E status \in {0} \cup FailStatuses, ahead \in BOOLEAN :
          /\ deployRun(status, "git fetch", "compare")
          /\ originAhead' = IF status = 0 THEN ahead ELSE originAhead
    /\ UNCHANGED <<head, containers, image, healthAttempt>>
    /\ UNCHANGED serverVars

\* No new commit: ask whether to rebuild anyway; anything but y cancels
\* with status 0.
DeployCompare ==
    /\ deployPc = "compare"
    /\ \E reply \in {"y", "n"} :
          IF ~originAhead /\ reply # "y"
          THEN deployExit(0, "none")
          ELSE /\ deployPc' = "pull"
               /\ UNCHANGED <<deployStatus, failedCommand>>
    /\ UNCHANGED <<head, originAhead, containers, image, healthAttempt>>
    /\ UNCHANGED serverVars

\* git pull origin $BRANCH; NEW_COMMIT=$(git rev-parse --short HEAD)
DeployPull ==
    /\ deployPc = "pull"
    /\ \E status \in {0} \cup FailStatuses :
          /\ deployRun(status, "git pull", "stop")
          /\ head' = IF status = 0 /\ originAhead THEN "new" ELSE head
    /\ UNCHANGED <<originAhead, containers, image, healthAttempt>>
    /\ UNCHANGED serverVars

\* STOP CONTAINERS: docker compose down.  A failing down may have stopped
\* the containers or not.
DeployStop ==
    /\ deployPc = "stop"
    /\ \E status \in {0} \cup FailStatuses :
          /\ deployRun(status, "compose down", "build")
          /\ IF status = 0 THEN containers' = "down"
             ELSE containers' \in {containers, "down"}
    /\ UNCHANGED <<head, originAhead, image, healthAttempt>>
    /\ UNCHANGED serverVars

\* REBUILD AND START: docker compose build --no-cache, then the test of $?
\* with the rollback (git reset --hard $OLD_COMMIT, up -d, exit 1).
DeployBuild ==
    /\ deployPc = "build"
    /\ \E status \in {0} \cup FailStatuses :
          IF status # 0 /\ ErrExit
          THEN /\ deployExit(status, "compose build")
               /\ UNCHANGED <<head, containers, image>>
          ELSE IF status # 0
          THEN /\ deployExit(1, "compose build")
               /\ head' = "old"
               /\ containers' = image
               /\ UNCHANGED image
          ELSE /\ deployPc' = "start"
               /\ image' = head
               /\ UNCHANGED <<deployStatus, failedCommand, head, containers>>
    /\ UNCHANGED <<originAhead, healthAttempt>>
    /\ UNCHANGED serverVars

\* START CONTAINERS: docker compose up -d, then the test of $? (exit 1).
DeployStart ==
    /\ deployPc = "start"
    /\ \E status \in {0} \cup FailStatuses :
          IF status # 0 /\ ErrExit
          THEN /\ deployExit(status, "compose up")
               /\ UNCHANGED containers
          ELSE IF status # 0
          THEN /\ deployExit(1, "compose up")
               /\ UNCHANGED containers
          ELSE /\ deployPc' = "verify"
               /\ containers' = image
               /\ UNCHANGED <<deployStatus, failedCommand>>
    /\ UNCHANGED <<head, originAhead, image, healthAttempt>>
    /\ UNCHANGED serverVars

\* VERIFY DEPLOYMENT: sleep 30; docker compose ps; the health check runs
\* when curl is installed.
DeployVerify ==
    /\ deployPc = "verify"
    /\ \E status \in {0} \cup FailStatuses, curl \in BOOLEAN :
          /\ deployRun(status, "compose ps", IF curl THEN "health" ELSE "cleanup")
          /\ healthAttempt' = IF status = 0 /\ curl THEN 1 ELSE healthAttempt
    /\ UNCHANGED <<head, originAhead, containers, image>>
    /\ UNCHANGED serverVars

\* One turn of the health loop: curl -sf .../health passes, or fails and is
\* retried up to HealthAttempts times.
DeployHealthAttempt ==
    /\ deployPc = "health"
    /\ \E passed \in BOOLEAN :
          IF passed
          THEN /\ deployPc' = "cleanup"
               /\ UNCHANGED healthAttempt
          ELSE IF healthAttempt < HealthAttempts
          THEN /\ deployPc' = "health"
               /\ healthAttempt' = healthAttempt + 1
          ELSE /\ deployPc' = "prompt"
               /\ UNCHANGED healthAttempt
    /\ UNCHANGED <<deployStatus, failedCommand, head, originAhead, containers, image>>
    /\ UNCHANGED serverVars

\* Health checks failed: ask whether to roll back; exit 1 without it.
DeployRollbackPrompt ==
    /\ deployPc = "prompt"
    /\ \E reply \in {"y", "n"} :
          IF reply = "y"
          THEN /\ deployPc' = "rollbackStop"
               /\ UNCHANGED <<deployStatus, failedCommand>>
          ELSE deployExit(1, "health check")
    /\ UNCHANGED <<head, originAhead, containers, image, healthAttempt>>
    /\ UNCHANGED serverVars

\* Rollback: docker compose down
DeployRollbackStop ==
    /\ deployPc = "rollbackStop"
    /\ \E status \in {0} \cup FailStatuses :
          /\ deployRun(status, "compose down", "rollbackReset")
          /\ IF status = 0 THEN containers' = "down"
             ELSE containers' \in {containers, "down"}
    /\ UNCHANGED <<head, originAhead, image, healthAttempt>>
    /\ UNCHANGED serverVars

\* Rollback: git reset --hard $OLD_COMMIT
DeployRollbackReset ==
    /\ deployPc = "rollbackReset"
    /\ \E status \in {0} \cup FailStatuses :
          /\ deployRun(status, "git reset", "rollbackStart")
          /\ head' = IF status = 0 THEN "old" ELSE head
    /\ UNCHANGED <<originAhead, containers, image, healthAttempt>>
    /\ UNCHANGED serverVars

\* Rollback: docker compose up -d --build; exit 1
DeployRollbackStart ==
    /\ deployPc = "rollbackStart"
    /\ \E status \in {0} \cup FailStatuses :
          IF status # 0 /\ ErrExit
          THEN /\ deployExit(status, "compose up")
               /\ UNCHANGED <<containers, image>>
          ELSE /\ deployExit(1, "health check")
               /\ image' = IF status = 0 THEN head ELSE image
               /\ containers' = IF status = 0 THEN head ELSE containers
    /\ UNCHANGED <<head, originAhead, healthAttempt>>
    /\ UNCHANGED serverVars

\* CLEANUP: docker image prune -f
DeployCleanup ==
    /\ deployPc = "cleanup"
    /\ \E status \in {0} \cup FailStatuses : deployRun(status, "image prune", "summary")
    /\ UNCHANGED <<head, originAhead, containers, image, healthAttempt>>
    /\ UNCHANGED serverVars

\* DEPLOYMENT COMPLETE: the summary with docker compose ps; the script ends
\* with the status of its last command.
DeploySummary ==
    /\ deployPc = "summary"
    /\ \E status \in {0} \cup FailStatuses :
          IF status # 0 /\ ErrExit
          THEN deployExit(status, "compose ps")
          ELSE deployExit(0, "none")
    /\ UNCHANGED <<head, originAhead, containers, image, healthAttempt>>
    /\ UNCHANGED serverVars

\* Start of ./deploy.sh on a host that runs the deployed version.
DeployInit ==
    /\ deployPc = "precheck"
    /\ deployStatus = NoExit
    /\ head = "old"
    /\ originAhead = FALSE
    /\ containers = "old"
    /\ image = "old"
    /\ healthAttempt = 0
    /\ failedCommand = "none"

DeployNext ==
    \/ DeployPreChecks
    \/ DeployBackup
    \/ DeployFetch
    \/ DeployCompare
    \/ DeployPull
    \/ DeployStop
    \/ DeployBuild
    \/ DeployStart
    \/ DeployVerify
    \/ DeployHealthAttempt
    \/ DeployRollbackPrompt
    \/ DeployRollbackStop
    \/ DeployRollbackReset
    \/ DeployRollbackStart
    \/ DeployCleanup
    \/ DeploySummary

\* ---- specification -----------------------------------------------------------

\* After app.listen: listening, nothing in flight, no signal received, the
\* connect to MongoDB under way.
Init ==
    /\ serverListening = TRUE
    /\ connections = 0
    /\ closeListeners = << >>
    /\ closeEmitted = 0
    /\ storage = "open"
    /\ storageCloseCalls = 0
    /\ timers = 0
    /\ log = << >>
    /\ exitCode = NoExit
    /\ signals = << >>
    /\ serverCloseCalls = 0
    /\ closeErrors = 0
    /\ answeredDraining = 0
    /\ dbState = "connecting"
    /\ connectLog = << >>
    /\ lastResponse = NoResponse
    /\ tasks = [i \in {} |-> FALSE]
    /\ DeployInit

Next ==
    \/ ConnectResolved
    \/ ConnectRejected
    \/ RequestArrive
    \/ RequestComplete
    \/ StorageCloseResolved
    \/ StorageCloseRejected
    \/ TimerFire
    \/ OnSIGTERM
    \/ OnSIGINT

Spec == Init /\ [][Next]_vars

\* A pending timer fires after its delay; the listener and the storage
\* driver owe no completion.
FairSpec == Spec /\ WF_vars(TimerFire)

\* One run of deploy.sh.
DeploySpec == Init /\ [][DeployNext]_vars

\* The service started from src/server.js.  Nothing in the file owes a
\* step: there is no timer, and the storage driver may never call back.
JsSpec == Init /\ [][JsNext]_vars

DeployTypeOK ==
    /\ deployPc \in {"precheck", "backup", "fetch", "compare", "pull", "stop", "build",
                     "start", "verify", "health", "prompt", "rollbackStop",
                     "rollbackReset", "rollbackStart", "cleanup", "summary", "done"}
    /\ deployStatus \in {NoExit, 0} \cup FailStatuses
    /\ head \in {"old", "new"}
    /\ originAhead \in BOOLEAN
    /\ containers \in {"old", "new", "down"}
    /\ image \in {"old", "new"}
    /\ healthAttempt \in 0..HealthAttempts
    /\ (deployPc = "done") <=> (deployStatus # NoExit)

TypeOK ==
    /\ serverListening \in BOOLEAN
    /\ connections \in 0..MaxConnections
    /\ closeListeners \in Seq(BOOLEAN)
    /\ closeEmitted \in Nat
    /\ storage \in {"open", "closing", "closed", "failed"}
    /\ storageCloseCalls \in Nat
    /\ timers \in 0..MaxSignals
    /\ exitCode \in {NoExit, 0, 1}
    /\ Len(signals) <= MaxSignals
    /\ serverCloseCalls = Len(signals)
    /\ closeErrors \in 0..MaxSignals
    /\ answeredDraining \in 0..MaxConnections
    /\ dbState \in {"connecting", "connected", "failed"}
    /\ Len(connectLog) <= 2
    /\ lastResponse.route \in Routes \cup {"-"}
    /\ lastResponse.status \in {0, 200, 201, 400, 404, 500}
    /\ DOMAIN tasks \subseteq TaskIds
    /\ \A i \in DOMAIN tasks : tasks[i] \in BOOLEAN

\* ---- helpers of the properties ------------------------------------------------

Count(e, s) == Cardinality({i \in 1..Len(s) : s[i] = e})

CountIn(S, s) == Cardinality({i \in 1..Len(s) : s[i] \in S})

Logged(e) == \E i \in 1..Len(log) : log[i] = e

ShutdownStarted == Len(signals) > 0

TerminalEvents == {EvCompleted, EvServerError, EvShutdownError, EvTimedOut}

\* ---- C1 ------------------------------------------------------------------------
\* C1: mongoose.connection.close is never invoked in a state where the
\* listener has not yet emitted 'close': whenever it has been invoked, the
\* listener is stopped, has reported closed and no request is in flight.
C1_StorageCloseAfterDrain ==
    storageCloseCalls > 0 =>
        /\ closeEmitted > 0
        /\ ~serverListening
        /\ connections = 0

\* The storage close was invoked after the listener waited for a request
\* that was still in flight when the signal arrived.
C1_Witness == storageCloseCalls = 1 /\ answeredDraining > 0 /\ storage = "closing"

\* ---- C2 ------------------------------------------------------------------------
\* C2: the shutdown starts at most once per process: however many signals
\* are delivered, one "shutdown initiated" event is logged and the listener
\* stop is requested once.
C2_ShutdownAtMostOnce ==
    /\ CountIn(InitiatedEvents, log) <= 1
    /\ serverCloseCalls <= 1

\* ---- C3 ------------------------------------------------------------------------
\* C3: an exited process has exactly one terminal outcome, and it is the
\* outcome of the one shutdown sequence: a non-zero exit comes from the
\* storage close failing or the timer elapsing, or from the listener close
\* of a run with a single signal, never from a further signal.
C3_SingleOutcome ==
    Exited =>
        /\ CountIn(TerminalEvents, log) = 1
        /\ exitCode # 0 =>
              \/ Logged(EvShutdownError)
              \/ Logged(EvTimedOut)
              \/ Len(signals) = 1

\* ---- C4 ------------------------------------------------------------------------
\* C4 as stated: the process has exited only if both the listener and the
\* storage connection reported closed, or the timer elapsed.
C4_ExitOnlyClosedOrTimeout ==
    Exited =>
        \/ closeEmitted > 0 /\ storage = "closed"
        \/ Logged(EvTimedOut)

\* C4 amended: the process has exited only if both the listener and the
\* storage connection reported closed, or one of the two close operations
\* reported an error, or the timer elapsed.
C4_ExitOnlyClosedErrorOrTimeout ==
    Exited =>
        \/ closeEmitted > 0 /\ storage = "closed"
        \/ closeErrors > 0
        \/ storage = "failed"
        \/ Logged(EvTimedOut)

\* The process left on a storage close error, with the listener closed and
\* the timer still pending.
C4_Witness == Exited /\ storage = "failed" /\ closeEmitted > 0 /\ timers > 0

\* ---- C5 ------------------------------------------------------------------------
\* C5: after one signal, when the listener reported closed and the storage
\* close then resolved, the process has exited with code 0 and the log is
\* exactly: initiated, server closed, storage closed, completed.
C5_CleanPath ==
    (Len(signals) = 1 /\ closeEmitted > 0 /\ storage = "closed") =>
        /\ exitCode = 0
        /\ log = <<EvInitiated(signals[1]), EvServerClosed, EvStorageClosed, EvCompleted>>

C5_Witness == Len(signals) = 1 /\ storage = "closed" /\ Exited /\ answeredDraining = 0

\* ---- C6 ------------------------------------------------------------------------
\* C6: once a server.close callback was invoked with an Error, the error
\* event is logged, the process has exited with a non-zero code, and the
\* storage close is not invoked in any later step.
C6_ListenerFailure ==
    /\ [](closeErrors > 0 =>
            /\ Logged(EvServerError)
            /\ Exited
            /\ exitCode # 0)
    /\ [][closeErrors > 0 => storageCloseCalls' = storageCloseCalls]_vars

C6_Witness == closeErrors > 0 /\ Logged(EvServerError) /\ exitCode = 1

\* ---- C7 ------------------------------------------------------------------------
\* C7: when the storage close rejected, the listener had reported closed,
\* the error event is logged, the process has exited with a non-zero code,
\* the storage close was invoked exactly once, and neither the
\* storage-closed nor the completed event is logged.
C7_StorageFailure ==
    (storage = "failed" \/ Logged(EvShutdownError)) =>
        /\ storage = "failed"
        /\ closeEmitted > 0
        /\ Count(EvShutdownError, log) = 1
        /\ Exited
        /\ exitCode # 0
        /\ storageCloseCalls = 1
        /\ ~Logged(EvStorageClosed)
        /\ ~Logged(EvCompleted)

C7_Witness == storage = "failed" /\ Logged(EvShutdownError) /\ exitCode = 1 /\ answeredDraining > 0

\* ---- C8 ------------------------------------------------------------------------
\* C8: a storage close that is pending is followed by the exit of the
\* process; an exit with the storage close still pending has a non-zero
\* code; and once the timer callback ran, the timeout warning is logged
\* exactly once and the exit code is non-zero.
C8_TimeoutPath ==
    /\ [](Logged(EvTimedOut) =>
            /\ Count(EvTimedOut, log) = 1
            /\ Exited
            /\ exitCode # 0)
    /\ []((Exited /\ storage = "closing") => exitCode # 0)
    /\ (storage = "closing" ~> Exited)

\* Forced exit while the storage close is pending.
C8_Witness == Logged(EvTimedOut) /\ storage = "closing" /\ Exited

\* ---- C9 ------------------------------------------------------------------------
\* C9: after a signal was received the process eventually exits.
C9_ForwardProgress == ShutdownStarted ~> Exited

\* Exit of a run whose listener never drained.
C9_Witness == ShutdownStarted /\ Exited /\ connections > 0 /\ closeEmitted = 0

\* ---- C10 -----------------------------------------------------------------------
\* C10: once the timer callback ran the exit code is non-zero and no
\* success or error outcome was reached before; when it ran while the
\* listener was still draining, the storage close was never invoked.
C10_TimeoutFromAnyStage ==
    Logged(EvTimedOut) =>
        /\ Exited
        /\ exitCode # 0
        /\ ~Logged(EvCompleted)
        /\ ~Logged(EvServerError)
        /\ ~Logged(EvShutdownError)
        /\ closeEmitted = 0 => (storageCloseCalls = 0 /\ storage = "open")

\* Timeout while a request is still in flight.
C10_Witness == Logged(EvTimedOut) /\ closeEmitted = 0 /\ connections > 0 /\ storageCloseCalls = 0

\* ---- C11 -----------------------------------------------------------------------
\* C11: exit code 0 only with the listener closed without error and the
\* storage close resolved; an exit after a listener error, a storage error
\* or the timeout has a non-zero code.
C11_ExitCodes ==
    /\ exitCode = 0 =>
          /\ closeEmitted > 0
          /\ closeErrors = 0
          /\ storage = "closed"
          /\ ~Logged(EvServerError)
          /\ ~Logged(EvShutdownError)
          /\ ~Logged(EvTimedOut)
    /\ (Exited /\ (closeErrors > 0 \/ storage = "failed" \/ Logged(EvTimedOut))) =>
          exitCode # 0

\* A clean exit after the listener waited for a request.
C11_Witness == exitCode = 0 /\ storage = "closed" /\ answeredDraining > 0

\* ---- C13 -----------------------------------------------------------------------
\* C13 as stated: a process that has exited has answered every accepted
\* request, and while a request is in flight the storage connection has
\* not been closed.
C13_InFlightAlwaysAnswered ==
    /\ Exited => connections = 0
    /\ connections > 0 => (storage = "open" /\ storageCloseCalls = 0)

\* C13 amended: a process that has exited without the timer elapsing has
\* answered every accepted request, and while a request is in flight the
\* storage connection has not been closed.
C13_InFlightAnsweredUnlessTimeout ==
    /\ (Exited /\ ~Logged(EvTimedOut)) => connections = 0
    /\ connections > 0 => (storage = "open" /\ storageCloseCalls = 0)

\* A request accepted before the signal was answered after it, and the
\* process then left cleanly.
C13_Witness == Exited /\ ~Logged(EvTimedOut) /\ answeredDraining > 0 /\ connections = 0

\* ---- C14 -----------------------------------------------------------------------
\* C14: from the shutdown-initiated event on the listener does not accept:
\* the number of connections never grows, and the step that starts the
\* shutdown leaves the requests in flight as they are.
C14_NoAcceptAfterInitiated ==
    /\ [](CountIn(InitiatedEvents, log) > 0 => ~serverListening)
    /\ [][CountIn(InitiatedEvents, log) > 0 => connections' <= connections]_vars
    /\ [][signals' # signals => connections' = connections]_vars

\* Draining with a request still in flight after another one was answered.
C14_Witness == ShutdownStarted /\ ~Exited /\ connections > 0 /\ answeredDraining > 0

\* ---- C15 -----------------------------------------------------------------------
\* C15: in the log, a server-closed event comes after an initiated event, a
\* storage-closed event after a server-closed event, a completed event
\* right after a storage-closed event, and nothing is logged after exit.
C15_EventOrder ==
    /\ [](\A i \in 1..Len(log) :
            /\ log[i] = EvServerClosed => \E j \in 1..(i - 1) : log[j] \in InitiatedEvents
            /\ log[i] = EvStorageClosed => \E j \in 1..(i - 1) : log[j] = EvServerClosed
            /\ log[i] = EvCompleted => (i > 1 /\ log[i - 1] = EvStorageClosed))
    /\ [][Exited => log' = log]_vars

\* A complete log of a clean shutdown that waited for a request.
C15_Witness == Logged(EvCompleted) /\ Exited /\ answeredDraining > 0 /\ Len(signals) = 1

\* ---- C19 -----------------------------------------------------------------------
\* C19: whenever the shutdown has started and the process has not exited a
\* timer is pending, and no step of a live process removes a timer.
C19_TimerArmedWithShutdown ==
    /\ []((ShutdownStarted /\ ~Exited) => timers > 0)
    /\ []((serverCloseCalls > 0) => timers + Count(EvTimedOut, log) = serverCloseCalls)
    /\ [][~Exited' => timers' >= timers]_vars

\* Storage close pending with the timer armed.
C19_Witness == ShutdownStarted /\ ~Exited /\ timers = 1 /\ storage = "closing"

\* ---- C20 -----------------------------------------------------------------------
\* Running, Draining, ClosingStorage, or the exit reached.
Phase ==
    IF Exited THEN
        (IF Logged(EvTimedOut) THEN "TimedOut"
         ELSE IF exitCode = 0 THEN "Terminated" ELSE "Failed")
    ELSE IF ~ShutdownStarted THEN "Running"
    ELSE IF closeEmitted = 0 THEN "Draining"
    ELSE "ClosingStorage"

PhaseRank(ph) ==
    CASE ph = "Running" -> 0
      [] ph = "Draining" -> 1
      [] ph = "ClosingStorage" -> 2
      [] OTHER -> 3

\* C20: the phase never moves backwards, an exit is final, Terminated is
\* entered from ClosingStorage only, and a stopped listener stays stopped.
C20_Irreversible ==
    /\ [][PhaseRank(Phase') >= PhaseRank(Phase)]_vars
    /\ [][Exited => Phase' = Phase]_vars
    /\ [][(Phase' = "Terminated" /\ Phase # "Terminated") => Phase = "ClosingStorage"]_vars
    /\ [][~serverListening => ~serverListening']_vars
    /\ [](Phase # "Running" => ~serverListening)

\* A failed exit reached from ClosingStorage.
C20_Witness == Phase = "Failed" /\ storage = "failed" /\ ~serverListening

\* ---- C12 -----------------------------------------------------------------------
\* A log with the signal name of the initiated events removed.
StripNames(s) == [i \in 1..Len(s) |-> IF s[i] \in InitiatedEvents THEN "initiated" ELSE s[i]]

\* The state without the names of the signals received.
Masked ==
    <<serverListening, connections, closeListeners, closeEmitted, storage,
      storageCloseCalls, timers, StripNames(log), exitCode, Len(signals),
      serverCloseCalls, closeErrors, answeredDraining, dbState, connectLog,
      lastResponse, tasks>>

\* The handler registered for a signal.
SignalHandler(signal) ==
    \/ signal = "SIGTERM" /\ OnSIGTERM
    \/ signal = "SIGINT" /\ OnSIGINT

\* C12: in every state the two handlers are enabled together, and whenever
\* the handler of one signal takes a step, the handler of either signal can
\* take a step from the same state to a state that differs at most in the
\* signal name; the initiated event of the step carries the name of the
\* signal received.
C12_SignalsHandledAlike ==
    /\ []((ENABLED OnSIGTERM) <=> (ENABLED OnSIGINT))
    /\ [][\A sig \in SignalNames :
            SignalHandler(sig) =>
                /\ \E m \in {Masked'} :
                      \A other \in SignalNames :
                          ENABLED (SignalHandler(other) /\ Masked' = m
                                   /\ signals' = Append(signals, other)
                                   /\ Count(EvInitiated(other), log') = Count(EvInitiated(other), log) + 1)
                /\ signals' = Append(signals, sig)
                /\ Count(EvInitiated(sig), log') = Count(EvInitiated(sig), log) + 1]_vars

\* A clean exit of a run triggered by SIGINT.
C12_Witness == signals = <<"SIGINT">> /\ exitCode = 0 /\ log[1] = EvInitiated("SIGINT")

\* ---- C16 -----------------------------------------------------------------------
\* C16: once the initial connect failed, the connection error is logged;
\* the failure itself neither ends the process nor stops the listener; and
\* every response sent from then on is a 500 for a task route that needs
\* storage, and a 200 with database "Disconnected" for GET /health.
C16_FailOpenStartup ==
    /\ [](dbState = "failed" =>
            /\ connectLog = <<EvConnectError>>
            /\ ~ShutdownStarted => (~Exited /\ serverListening))
    /\ [][(dbState # "failed" /\ dbState' = "failed") =>
            (exitCode' = exitCode /\ serverListening' = serverListening)]_vars
    /\ [][(dbState = "failed" /\ connections' < connections) =>
            /\ NeedsStorage(lastResponse'.route) => lastResponse'.status = 500
            /\ lastResponse'.route = "health" =>
                  (lastResponse'.status = 200 /\ lastResponse'.database = "Disconnected")]_vars

\* A task request answered 500 by a serving process whose connect failed.
C16_Witness ==
    /\ dbState = "failed"
    /\ lastResponse.route = "getTasks"
    /\ lastResponse.status = 500
    /\ serverListening
    /\ ~Exited

\* ---- C17 -----------------------------------------------------------------------
\* C17: when the script has ended because the image build failed, the
\* working tree is back at the previously deployed commit, the containers
\* of the old version run again, and the exit status is 1.
C17_RollbackOnBuildFailure ==
    (deployPc = "done" /\ failedCommand = "compose build") =>
        /\ head = "old"
        /\ containers = "old"
        /\ deployStatus = 1

\* ---- C18 -----------------------------------------------------------------------
\* C18: in every state of a deployment run the containers of the old or of
\* the new version are running.
C18_ZeroDowntime == containers \in {"old", "new"}

\* ---- C21 -----------------------------------------------------------------------
\* C21: in src/server.js the storage close is invoked only with the listener
\* stopped and drained, a SIGINT starts the same sequence as a SIGTERM (the
\* received line is logged and the storage close is invoked), and a started
\* shutdown has a way to end although the storage close never calls back: a
\* forced-exit timer is pending.
C21_JsSameGuarantees ==
    /\ storageCloseCalls > 0 => (~serverListening /\ connections = 0)
    /\ (\E i \in 1..Len(signals) : signals[i] = "SIGINT") =>
          (Len(log) >= Len(signals) /\ storageCloseCalls > 0)
    /\ (ShutdownStarted /\ ~Exited) => timers > 0

\* ---- C22 -----------------------------------------------------------------------
\* A step in which a handler answered its request.
Answered == connections' = connections - 1

\* C22: every handler answers once.  POST /api/tasks without a title answers
\* 400 and leaves the collection as it is; PUT and DELETE whose lookup
\* matched no task answer 404 and leave the collection as it is, and for an
\* id no task has the answer is never a success; a handler whose storage
\* operation threw answers 500.
C22_RejectedRequests ==
    [][Answered =>
        LET r == lastResponse' IN
        /\ r.sent = 1
        /\ r.route = "postNoTitle" => (r.status = 400 /\ tasks' = tasks)
        /\ (r.route \in {"putTask", "deleteTask"} /\ r.result = "notfound") =>
              (r.status = 404 /\ tasks' = tasks)
        /\ (r.route \in {"putTask", "deleteTask"} /\ r.id \notin DOMAIN tasks) =>
              (r.status \in {404, 500} /\ tasks' = tasks)
        /\ (r.result = "throws" /\ r.route # "postNoTitle") => r.status = 500
        /\ r.status \in {400, 404} => tasks' = tasks]_vars

\* A DELETE for an id no task has, answered 404 with a task in the
\* collection.
C22_Witness ==
    /\ lastResponse.route = "deleteTask"
    /\ lastResponse.status = 404
    /\ lastResponse.id \notin DOMAIN tasks
    /\ DOMAIN tasks # {}

====
